---------------------------- MODULE Spec2Model ----------------------------
(***************************************************************************)
(* The project-timeline scheduling engine of the YouTrack client           *)
(* (src/src/youtrack-client.ts): calculateTimeline, detectConflicts with   *)
(* findDependencyCycles and datesOverlap, and calculateCriticalPath with   *)
(* its recursive forward and backward passes; the loop of getGanttData     *)
(* that builds the tasks from the issues; and the client's rate limiting:  *)
(* makeRequest, processQueue and the response interceptor.                 *)
(*                                                                         *)
(* Conventions.                                                            *)
(*  - An optional field (startDate?: number) is <<>> when undefined and    *)
(*    <<v>> when it holds v.                                               *)
(*  - Timestamps and durations are milliseconds.  A value the code         *)
(*    reports in days (x / (1000*60*60*24)) is kept as its numerator x,    *)
(*    the denominator being MsPerDay; comparisons made on the quotient     *)
(*    are made on the numerator scaled by the same factor.                 *)
(*  - A JavaScript Map is a function; its iteration order is its           *)
(*    insertion order, which is the order of the task list.                *)
(***************************************************************************)
EXTENDS Integers, Sequences, FiniteSets, TLC

VARIABLES
    caller,        \* the public operation running: "getGanttData" or "calculateCriticalPath"
    tasks,         \* GanttTask[]: the tasks the engine works on
    pc,            \* position in the operation
    now,           \* the value Date.now() returned to calculateTimeline
    timeline,      \* <<>> or <<result of calculateTimeline>>
    conflicts,     \* <<>> or <<result of detectConflicts>>
    dependencyGraph,         \* calculateCriticalPath: Map task -> tasks it depends on
    reverseDependencyGraph,  \* calculateCriticalPath: Map task -> tasks depending on it
    earliestStart, \* Map<string, number>
    earliestFinish,
    latestStart,
    latestFinish,
    projectEndTime,\* <<>> until the forward pass is over
    loopIndex,     \* position of the for loop over taskMap.keys()
    callStack,     \* activation records of calculateEarliestTimes / calculateLatestTimes
    result,        \* <<>> or <<CriticalPathResult>>
    issues,        \* getGanttData: issuesToProcess, the issues of the search
    issueIndex,    \* getGanttData: position of the for loop over issuesToProcess
    serverLinks,   \* the issue links the server holds while the operation runs
    rateLimitInfo, \* { remaining, resetTime, limit }
    requestQueue,  \* Array<() => Promise<any>>: the queued requests, by id
    isProcessingQueue,
    requests,      \* the calls of makeRequest: where each is and how it ended
    timers,        \* setTimeout(() => this.processQueue(), waitTime) pending, by delay
    awaiting       \* <<>> or <<the request processQueue awaits>>

buildVars == <<issues, issueIndex, serverLinks>>

clientVars == <<rateLimitInfo, requestQueue, isProcessingQueue, requests,
                timers, awaiting>>

engineVars == <<caller, tasks, pc, now, timeline, conflicts, dependencyGraph,
                reverseDependencyGraph, earliestStart, earliestFinish,
                latestStart, latestFinish, projectEndTime, loopIndex,
                callStack, result>>

vars == <<engineVars, buildVars, clientVars>>

cpVars == <<dependencyGraph, reverseDependencyGraph, earliestStart,
            earliestFinish, latestStart, latestFinish, projectEndTime,
            loopIndex, callStack, result>>

-----------------------------------------------------------------------------
(* JavaScript values *)

MsPerDay == 1000 * 60 * 60 * 24

Days(n) == n * MsPerDay

\* Number.MAX_SAFE_INTEGER, here the largest timestamp the checker's integers
\* hold; every modelled timestamp is below it, as every real one is below 2^53-1.
MAX_SAFE_INTEGER == 2147483647

Undefined == <<>>

Some(v) == <<v>>

\* Truthiness of an optional number: undefined and 0 are falsy.
Truthy(opt) == opt # <<>> /\ opt[1] # 0

\* a || b on numbers, b an optional or plain fallback already evaluated
OrElse(opt, fallback) == IF Truthy(opt) THEN opt[1] ELSE fallback

Max(a, b) == IF a >= b THEN a ELSE b

Min(a, b) == IF a <= b THEN a ELSE b

Abs(a) == IF a < 0 THEN 0 - a ELSE a

\* Math.ceil(a / b) for b > 0
CeilDiv(a, b) == 0 - ((0 - a) \div b)

Range(s) == {s[i] : i \in 1..Len(s)}

\* Array.prototype.indexOf, 0-based, -1 when absent
IndexOf(s, x) ==
    IF \E i \in 1..Len(s) : s[i] = x
    THEN (CHOOSE i \in 1..Len(s) : s[i] = x /\ \A j \in 1..(i-1) : s[j] # x) - 1
    ELSE 0 - 1

\* Array.prototype.slice(start) with one argument
Slice(s, start) ==
    LET from == IF start < 0 THEN Max(Len(s) + start, 0) ELSE Min(start, Len(s))
    IN  SubSeq(s, from + 1, Len(s))

\* Array.prototype.map and filter
MapSeq(s, F(_)) == [i \in 1..Len(s) |-> F(s[i])]

-----------------------------------------------------------------------------
(* calculateTimeline *)

TaskStart_Created(task) == task.created

TaskStart(task) == OrElse(task.startDate, task.created)

TaskEnd(task) == OrElse(task.dueDate, OrElse(task.resolved, task.updated))

RECURSIVE TimelineLoop(_, _, _, _)
TimelineLoop(ts, i, earliest, latest) ==
    IF i > Len(ts) THEN [earliestStart |-> earliest, latestEnd |-> latest]
    ELSE TimelineLoop(ts, i + 1,
            IF TaskStart(ts[i]) < earliest THEN TaskStart(ts[i]) ELSE earliest,
            IF TaskEnd(ts[i]) > latest THEN TaskEnd(ts[i]) ELSE latest)

\* calculateTimeline without its guard for the empty list
calculateTimeline_NoEmptyCase(ts, dateNow) ==
    LET r == TimelineLoop(ts, 1, MAX_SAFE_INTEGER, 0)
    IN  [startDate |-> r.earliestStart,
         endDate   |-> r.latestEnd,
         duration  |-> CeilDiv(r.latestEnd - r.earliestStart, MsPerDay)]

calculateTimeline(ts, dateNow) ==
    IF Len(ts) = 0
    THEN [startDate |-> dateNow, endDate |-> dateNow, duration |-> 0]
    ELSE LET r == TimelineLoop(ts, 1, MAX_SAFE_INTEGER, 0)
         IN  [startDate |-> r.earliestStart,
              endDate   |-> r.latestEnd,
              duration  |-> CeilDiv(r.latestEnd - r.earliestStart, MsPerDay)]

-----------------------------------------------------------------------------
(* detectConflicts, findDependencyCycles, datesOverlap *)

\* datesOverlap on open intervals
datesOverlap_Strict(start1, end1, start2, end2) == start1 < end2 /\ start2 < end1

datesOverlap(start1, end1, start2, end2) == start1 <= end2 /\ start2 <= end1

\* graph.get(node) || []
Neighbors(graph, node) == IF node \in DOMAIN graph THEN graph[node] ELSE <<>>

\* The closure dfs of findDependencyCycles.  st holds the four structures the
\* closure shares: cycles, visited, recursionStack, path.  The result is the
\* boolean dfs returns together with the structures as it leaves them.
RECURSIVE dfs(_, _, _)
RECURSIVE dfsNeighbors(_, _, _, _)
dfs(graph, node, st) ==
    IF node \in st.recursionStack
    THEN LET cycleStart == IndexOf(st.path, node)
         IN  [found |-> TRUE,
              st |-> [st EXCEPT !.cycles =
                         Append(@, Slice(st.path, cycleStart) \o <<node>>)]]
    ELSE IF node \in st.visited
    THEN [found |-> FALSE, st |-> st]
    ELSE LET entered == [st EXCEPT !.visited = @ \cup {node},
                                   !.recursionStack = @ \cup {node},
                                   !.path = Append(@, node)]
             r == dfsNeighbors(graph, Neighbors(graph, node), 1, entered)
         IN  IF r.found
             THEN [found |-> TRUE, st |-> r.st]
             ELSE [found |-> FALSE,
                   st |-> [r.st EXCEPT !.recursionStack = @ \ {node},
                                       !.path = SubSeq(@, 1, Len(@) - 1)]]

dfsNeighbors(graph, neighbors, i, st) ==
    IF i > Len(neighbors) THEN [found |-> FALSE, st |-> st]
    ELSE LET r == dfs(graph, neighbors[i], st)
         IN  IF r.found THEN r
             ELSE dfsNeighbors(graph, neighbors, i + 1, r.st)

\* The loop over graph.keys() calling dfs on every key, visited or not
RECURSIVE CyclesLoop_NoVisitedGuard(_, _, _, _)
CyclesLoop_NoVisitedGuard(graph, keys, i, st) ==
    IF i > Len(keys) THEN st
    ELSE CyclesLoop_NoVisitedGuard(graph, keys, i + 1, dfs(graph, keys[i], st).st)

\* for (const node of graph.keys()) if (!visited.has(node)) dfs(node)
RECURSIVE CyclesLoop(_, _, _, _)
CyclesLoop(graph, keys, i, st) ==
    IF i > Len(keys) THEN st
    ELSE CyclesLoop(graph, keys, i + 1,
            IF keys[i] \in st.visited THEN st ELSE dfs(graph, keys[i], st).st)

\* keys: the Map's keys in insertion order
findDependencyCycles(graph, keys) ==
    CyclesLoop(graph, keys, 1,
               [cycles |-> <<>>, visited |-> {}, recursionStack |-> {},
                path |-> <<>>]).cycles

TargetOf(dep) == dep.targetTaskIdReadable

IdOf(task) == task.idReadable

\* The same Map with the depends_on filter of the critical-path graph
ConflictGraph_DependsOnOnly(ts) ==
    [id \in {ts[i].idReadable : i \in 1..Len(ts)} |->
        LET i == CHOOSE j \in 1..Len(ts) :
                    ts[j].idReadable = id
                    /\ \A k \in (j+1)..Len(ts) : ts[k].idReadable # id
            DependsOn(dep) == dep.type = "depends_on"
        IN  MapSeq(SelectSeq(ts[i].dependencies, DependsOn), TargetOf)]

\* Map built by dependencyGraph.set(task.idReadable, ...) over the tasks
ConflictGraph(ts) ==
    [id \in {ts[i].idReadable : i \in 1..Len(ts)} |->
        LET i == CHOOSE j \in 1..Len(ts) :
                    ts[j].idReadable = id
                    /\ \A k \in (j+1)..Len(ts) : ts[k].idReadable # id
        IN  MapSeq(ts[i].dependencies, TargetOf)]

\* Keys of a Map filled by set() over the sequence: first insertion order
RECURSIVE InsertionOrder(_, _, _)
InsertionOrder(s, i, acc) ==
    IF i > Len(s) THEN acc
    ELSE InsertionOrder(s, i + 1,
            IF s[i] \in Range(acc) THEN acc ELSE Append(acc, s[i]))

\* The filter keeping only the tasks that lack both dates
MissingDates_Both(task) == ~Truthy(task.startDate) /\ ~Truthy(task.dueDate)

MissingDates(task) == ~Truthy(task.startDate) \/ ~Truthy(task.dueDate)

\* A conflict's description is kept as what it is built from: the count it
\* states (descCount), the task ids it joins (descIds), the assignee's name
\* (descAssignee); a part the text does not have is 0, <<>> or "".
MissingDatesConflicts(ts) ==
    LET tasksWithoutDates == SelectSeq(ts, MissingDates)
    IN  IF Len(tasksWithoutDates) > 0
        THEN << [type |-> "missing_dates",
                 taskIds |-> MapSeq(tasksWithoutDates, IdOf),
                 severity |-> "medium",
                 descCount |-> Len(tasksWithoutDates),
                 descIds |-> <<>>,
                 descAssignee |-> ""] >>
        ELSE <<>>

CycleConflict(cycle) ==
    [type |-> "dependency_cycle",
     taskIds |-> cycle,
     severity |-> "high",
     descCount |-> 0,
     descIds |-> cycle,
     descAssignee |-> ""]

CycleConflicts(ts) ==
    MapSeq(findDependencyCycles(ConflictGraph(ts),
                                InsertionOrder(MapSeq(ts, IdOf), 1, <<>>)),
           CycleConflict)

HasAssigneeAndDates(task) ==
    task.assignee # <<>> /\ Truthy(task.startDate) /\ Truthy(task.dueDate)

AssigneeIdOf(task) == task.assignee[1]

\* for (let j = i + 1; j < assigneeTasks.length; j++) ...
RECURSIVE PairLoop(_, _, _, _)
PairLoop(g, i, j, acc) ==
    IF i > Len(g) THEN acc
    ELSE IF j > Len(g) THEN PairLoop(g, i + 1, i + 2, acc)
    ELSE PairLoop(g, i, j + 1,
            IF datesOverlap(g[i].startDate[1], g[i].dueDate[1],
                            g[j].startDate[1], g[j].dueDate[1])
            THEN Append(acc, [type |-> "resource_conflict",
                              taskIds |-> <<g[i].idReadable, g[j].idReadable>>,
                              severity |-> "medium",
                              descCount |-> 0,
                              descIds |-> <<>>,
                              descAssignee |-> g[i].assignee[1]])
            ELSE acc)

\* for (const [assigneeId, assigneeTasks] of assigneeTaskMap) ...
RECURSIVE AssigneeLoop(_, _, _, _)
AssigneeLoop(eligible, assignees, k, acc) ==
    IF k > Len(assignees) THEN acc
    ELSE LET SameAssignee(t) == t.assignee[1] = assignees[k]
         IN  AssigneeLoop(eligible, assignees, k + 1,
                PairLoop(SelectSeq(eligible, SameAssignee), 1, 2, acc))

ResourceConflicts(ts) ==
    LET eligible == SelectSeq(ts, HasAssigneeAndDates)
    IN  AssigneeLoop(eligible,
                     InsertionOrder(MapSeq(eligible, AssigneeIdOf), 1, <<>>),
                     1, <<>>)

detectConflicts(ts) ==
    MissingDatesConflicts(ts) \o CycleConflicts(ts) \o ResourceConflicts(ts)

-----------------------------------------------------------------------------
(* calculateCriticalPath: the graphs and the task duration *)

\* Depth of the JavaScript call stack left to the two recursive closures; the
\* engine throws RangeError at the call that exceeds it.
MaxCallDepth == 6

TaskIdSeq(ts) == InsertionOrder(MapSeq(ts, IdOf), 1, <<>>)

TaskIdSet(ts) == {ts[i].idReadable : i \in 1..Len(ts)}

\* taskMap.get(id): the last task set under that key
TaskMapGet(ts, id) ==
    ts[CHOOSE j \in 1..Len(ts) :
          ts[j].idReadable = id /\ \A k \in (j+1)..Len(ts) : ts[k].idReadable # id]

IsDependsOn(dep) == dep.type = "depends_on"

\* dependencyGraph.get(task.idReadable)!.push(dep.targetTaskIdReadable)
RECURSIVE ForwardEdges(_, _, _)
ForwardEdges(ts, i, id) ==
    IF i > Len(ts) THEN <<>>
    ELSE (IF ts[i].idReadable = id
          THEN MapSeq(SelectSeq(ts[i].dependencies, IsDependsOn), TargetOf)
          ELSE <<>>) \o ForwardEdges(ts, i + 1, id)

\* reverseDependencyGraph.get(dep.targetTaskIdReadable)?.push(task.idReadable)
RECURSIVE ReverseEdges(_, _, _)
ReverseEdges(ts, i, id) ==
    IF i > Len(ts) THEN <<>>
    ELSE LET Hits(dep) == IsDependsOn(dep) /\ dep.targetTaskIdReadable = id
             Source(dep) == ts[i].idReadable
         IN  MapSeq(SelectSeq(ts[i].dependencies, Hits), Source)
             \o ReverseEdges(ts, i + 1, id)

BuildDependencyGraph(ts) == [id \in TaskIdSet(ts) |-> ForwardEdges(ts, 1, id)]

BuildReverseDependencyGraph(ts) == [id \in TaskIdSet(ts) |-> ReverseEdges(ts, 1, id)]

\* task.dueDate && task.startDate ? task.dueDate - task.startDate
\*                                 : (task.estimation?.minutes || 480) * 60 * 1000
TaskDuration(task) ==
    IF Truthy(task.dueDate) /\ Truthy(task.startDate)
    THEN task.dueDate[1] - task.startDate[1]
    ELSE OrElse(task.estimation, 480) * 60 * 1000

\* map.set(key, value)
MapSet(map, key, value) ==
    [k \in DOMAIN map \cup {key} |-> IF k = key THEN value ELSE map[k]]

SetMax_Min(S) == CHOOSE x \in S : \A y \in S : x <= y

RECURSIVE SetMax(_)
SetMax(S) ==
    LET x == CHOOSE y \in S : TRUE
    IN  IF S = {x} THEN x ELSE Max(x, SetMax(S \ {x}))

SetMin_Max(S) == CHOOSE x \in S : \A y \in S : x >= y

RECURSIVE SetMin(_)
SetMin(S) ==
    LET x == CHOOSE y \in S : TRUE
    IN  IF S = {x} THEN x ELSE Min(x, SetMin(S \ {x}))

MapValues(map) == {map[k] : k \in DOMAIN map}

\* Array.prototype.sort((a, b) => key(a) - key(b)): stable, ascending.
\* keys[i] is the key of s[i].
RECURSIVE InsertByKey(_, _, _, _)
InsertByKey(sorted, sortedKeys, x, key) ==
    IF Len(sorted) = 0 \/ sortedKeys[Len(sorted)] <= key
    THEN [elems |-> Append(sorted, x), keys |-> Append(sortedKeys, key)]
    ELSE LET r == InsertByKey(SubSeq(sorted, 1, Len(sorted) - 1),
                              SubSeq(sortedKeys, 1, Len(sorted) - 1), x, key)
         IN  [elems |-> Append(r.elems, sorted[Len(sorted)]),
              keys  |-> Append(r.keys, sortedKeys[Len(sorted)])]

RECURSIVE SortLoop(_, _, _, _)
SortLoop(s, keys, i, acc) ==
    IF i > Len(s) THEN acc.elems
    ELSE SortLoop(s, keys, i + 1, InsertByKey(acc.elems, acc.keys, s[i], keys[i]))

StableSort(s, keys) == SortLoop(s, keys, 1, [elems |-> <<>>, keys |-> <<>>])

-----------------------------------------------------------------------------
(* The task lists the engine is given.                                     *)
(* A task is what the converters build from one issue: startDate and       *)
(* dueDate are set only from a truthy parsed value, so each is undefined   *)
(* or non-zero; created, updated and resolved are the issue's own.         *)
(* convertIssueToGanttTaskSimplified, which getGanttData calls, leaves     *)
(* dependencies empty; convertIssueToGanttTask fills them with what        *)
(* getIssueDependenciesForGantt returns, which never lists the task        *)
(* itself.  The families with links are the lists of the latter: they are  *)
(* the inputs on which the cycle search and the two passes of the critical *)
(* path have anything to do.                                               *)

TaskIds == <<"A", "B", "C", "D", "E">>

\* An issue id that is not among the tasks of the query
OutOfScope == "X"

TargetOrder == TaskIds \o <<OutOfScope>>

GanttDependency(type, target) == [type |-> type, targetTaskIdReadable |-> target]

GanttTask(id, assignee, startDate, dueDate, created, updated, resolved, estimation, dependencies) ==
    [idReadable |-> id, assignee |-> assignee, startDate |-> startDate,
     dueDate |-> dueDate, created |-> created, updated |-> updated,
     resolved |-> resolved, estimation |-> estimation,
     dependencies |-> dependencies]

\* Bounds of the input families
MaxDateTasks == 3
MaxTimelineTasks == 2
MaxGraphEdges == 5
MaxPathEdges == 3

\* Sizes of the task lists of the graph families
GraphSizes == {3, 4}

\* Edges <<i, target, type>>: task i has a link of that type to target
PossibleEdges(n, types) ==
    {<<i, TargetOrder[j], ty>> : i \in 1..n, j \in (1..n) \cup {Len(TargetOrder)},
                               ty \in types} \ {<<i, TaskIds[i], ty>> : i \in 1..n, ty \in types}

EdgeSets(n, types, maxEdges) ==
    {E \in SUBSET PossibleEdges(n, types) : Cardinality(E) <= maxEdges}

EdgeTypeOrder == <<"depends_on", "blocks", "subtask_of", "parent_of", "relates_to">>

\* The dependency list of task i: its edges, by target and then by type
DependenciesOf(E, i) ==
    LET cells == [k \in 1..(Len(TargetOrder) * Len(EdgeTypeOrder)) |->
                     <<i, TargetOrder[((k - 1) \div Len(EdgeTypeOrder)) + 1],
                       EdgeTypeOrder[((k - 1) % Len(EdgeTypeOrder)) + 1]>>]
        InE(c) == c \in E
        AsDep(c) == GanttDependency(c[3], c[2])
    IN  MapSeq(SelectSeq(cells, InE), AsDep)

\* assignee, startDate, dueDate of the tasks of the resource and missing-date
\* family (days)
DateOptions ==
    { <<Undefined, Some(Days(1)), Some(Days(5))>>,
      <<Undefined, Undefined, Undefined>>,
      <<Some("u1"), Undefined, Undefined>>,
      <<Some("u1"), Some(Days(1)), Undefined>>,
      <<Some("u1"), Undefined, Some(Days(5))>>,
      <<Some("u1"), Some(Days(1)), Some(Days(5))>>,
      <<Some("u1"), Some(Days(5)), Some(Days(10))>>,
      <<Some("u1"), Some(Days(6)), Some(Days(10))>>,
      <<Some("u2"), Some(Days(1)), Some(Days(5))>>,
      <<Some("u2"), Some(Days(5)), Some(Days(10))>> }

DateFamily(ts) ==
    \E n \in 0..MaxDateTasks : \E f \in [1..n -> DateOptions] :
        ts = [i \in 1..n |->
                GanttTask(TaskIds[i], f[i][1], f[i][2], f[i][3],
                          Days(1), Days(2), Undefined, Undefined, <<>>)]

\* startDate and created of the tasks of the timeline family
TimelineStarts ==
    { <<Undefined, 0>>, <<Undefined, Days(3)>>, <<Some(Days(2)), Days(3)>> }

\* dueDate, resolved and updated of the tasks of the timeline family
TimelineEnds ==
    { <<Some(Days(5)), Undefined, Days(4)>>,
      <<Some(Days(5)), Some(Days(7)), Days(6)>>,
      <<Undefined, Some(Days(7)), Days(4)>>,
      <<Undefined, Some(0), Days(4)>>,
      <<Undefined, Undefined, Days(4)>>,
      <<Undefined, Undefined, Days(6)>> }

TimelineFamily(ts) ==
    \E n \in 1..MaxTimelineTasks : \E f \in [1..n -> TimelineStarts \X TimelineEnds] :
        ts = [i \in 1..n |->
                GanttTask(TaskIds[i], Undefined, f[i][1][1], f[i][2][1],
                          f[i][1][2], f[i][2][3], f[i][2][2], Undefined, <<>>)]

\* A task with both dates and no assignee: one day long, starting on day 1
PlainTask(id, deps) ==
    GanttTask(id, Undefined, Some(Days(1)), Some(Days(2)), Days(1), Days(2), Undefined, Undefined, deps)

GraphFamily(ts) ==
    \E n \in GraphSizes : \E E \in EdgeSets(n, {"depends_on"}, MaxGraphEdges) :
        ts = [i \in 1..n |-> PlainTask(TaskIds[i], DependenciesOf(E, i))]

Permutations3 ==
    { p \in [1..3 -> 1..3] : \A i, j \in 1..3 : i # j => p[i] # p[j] }

\* Three tasks in every order of the list
PermutedFamily(ts) ==
    \E p \in Permutations3 : \E E \in EdgeSets(3, {"depends_on"}, 3) :
        ts = [i \in 1..3 |-> PlainTask(TaskIds[p[i]], DependenciesOf(E, p[i]))]

\* The issue links the server holds: link type name, the issue on the
\* outward side (source) and the issue on the inward side (target)
LinkTypeNames == <<"Depend", "Blocks", "Subtask", "Parent", "Relates">>

MaxLinks == 2

LinkEnds == { <<"A", "B">>, <<"B", "A">>, <<"A", "A">> }

ServerLinks ==
    { [name |-> n, source |-> e[1], target |-> e[2]] :
        n \in Range(LinkTypeNames), e \in LinkEnds }

\* The sets of at most MaxLinks links, enumerated
LinkSets == { L : L \in { K \in SUBSET ServerLinks : Cardinality(K) <= MaxLinks } }

\* link.linkType.name.toLowerCase()
ToLowerCase(name) ==
    CASE name = "Depend" -> "depend"
      [] name = "Blocks" -> "blocks"
      [] name = "Subtask" -> "subtask"
      [] name = "Parent" -> "parent"
      [] name = "Relates" -> "relates"

\* linkTypeName.includes(part), for the parts the classification asks about
Includes(linkTypeName, part) ==
    <<linkTypeName, part>> \in
        { <<"depend", "depend">>, <<"blocks", "block">>, <<"subtask", "subtask">>,
          <<"parent", "parent">> }

\* The issues of L on the other side of issueId, in the server's order
LinkedIssues(L, name, direction, issueId) ==
    LET Linked(id) ==
            IF direction = "OUTWARD"
            THEN [name |-> name, source |-> issueId, target |-> id] \in L
            ELSE [name |-> name, source |-> id, target |-> issueId] \in L
    IN  SelectSeq(TargetOrder, Linked)

\* GET /issues/{issueId}/links: one link object per link type and direction
getIssueLinks(L, issueId) ==
    [k \in 1..(2 * Len(LinkTypeNames)) |->
        LET name == LinkTypeNames[((k - 1) \div 2) + 1]
            direction == IF k % 2 = 1 THEN "OUTWARD" ELSE "INWARD"
        IN  [linkType |-> name, direction |-> direction,
             issues |-> LinkedIssues(L, name, direction, issueId)]]

\* Lines 1978-1992: the dependency type of a link
DependencyTypeOf(link) ==
    LET linkTypeName == ToLowerCase(link.linkType)
    IN  IF Includes(linkTypeName, "depend")
        THEN IF link.direction = "OUTWARD" THEN "depends_on" ELSE "blocks"
        ELSE IF Includes(linkTypeName, "block")
        THEN IF link.direction = "OUTWARD" THEN "blocks" ELSE "depends_on"
        ELSE IF Includes(linkTypeName, "subtask") THEN "subtask_of"
        ELSE IF Includes(linkTypeName, "parent") THEN "parent_of"
        ELSE "relates_to"

\* The loops over links and link.issues without the test of line 1995
RECURSIVE LinksLoop_KeepSelf(_, _, _, _)
LinksLoop_KeepSelf(links, issueId, k, dependencies) ==
    IF k > Len(links) THEN dependencies
    ELSE LET link == links[k]
             AsDep(id) == GanttDependency(DependencyTypeOf(link), id)
         IN  LinksLoop_KeepSelf(links, issueId, k + 1,
                 dependencies \o MapSeq(link.issues, AsDep))

\* for (const link of links) ... for (const targetIssue of link.issues)
RECURSIVE LinksLoop(_, _, _, _)
LinksLoop(links, issueId, k, dependencies) ==
    IF k > Len(links) THEN dependencies
    ELSE LET link == links[k]
             NotSelf(id) == id # issueId
             AsDep(id) == GanttDependency(DependencyTypeOf(link), id)
         IN  LinksLoop(links, issueId, k + 1,
                 dependencies \o MapSeq(SelectSeq(link.issues, NotSelf), AsDep))

getIssueDependenciesForGantt(L, issueId) ==
    LinksLoop(getIssueLinks(L, issueId), issueId, 1, <<>>)

\* Issues A and B with the dependencies their links give them
LinkedTasks(L) ==
    [i \in 1..2 |-> PlainTask(TaskIds[i], getIssueDependenciesForGantt(L, TaskIds[i]))]

\* The task list of every link set
TasksOfLinks == [L \in LinkSets |-> LinkedTasks(L)]

LinkFamily(ts) == \E L \in LinkSets : ts = TasksOfLinks[L]

GanttInputs(ts) ==
    \/ DateFamily(ts) \/ TimelineFamily(ts) \/ GraphFamily(ts) \/ PermutedFamily(ts)
    \/ LinkFamily(ts)

\* startDate, dueDate, created, estimation of the tasks of the critical-path family
PathProfiles ==
    { <<Some(Days(1)), Some(Days(2)), Days(1), Undefined>>,
      <<Some(Days(1)), Some(Days(3)), Days(1), Undefined>>,
      <<Some(Days(1)), Some(Days(4)), Days(1), Undefined>>,
      <<Some(Days(3)), Some(Days(1)), Days(1), Undefined>>,
      <<Undefined, Undefined, Days(1), Undefined>> }

PathTask(id, profile, deps) ==
    GanttTask(id, Undefined, profile[1], profile[2], profile[3], Days(5), Undefined, profile[4], deps)

PathSizes == 0..3

PathFamily(ts) ==
    \E n \in PathSizes : \E f \in [1..n -> PathProfiles] :
        \E E \in EdgeSets(n, {"depends_on"}, MaxPathEdges) :
            ts = [i \in 1..n |-> PathTask(TaskIds[i], f[i], DependenciesOf(E, i))]

\* Links of two kinds between tasks that are all alike
TypedFamily(ts) ==
    \E E \in EdgeSets(3, {"depends_on", "blocks"}, MaxPathEdges) :
        ts = [i \in 1..3 |-> PlainTask(TaskIds[i], DependenciesOf(E, i))]

Minutes(n) == n * 60 * 1000

\* startDate, dueDate, created, estimation of the tasks of the duration
\* family: estimates of 0 and 60 minutes and none, with and without dates,
\* and a task that starts ten minutes after an 8-hour task created on day 1
\* ends
DurationProfiles ==
    { <<Undefined, Undefined, Days(1), Undefined>>,
      <<Undefined, Undefined, Days(1), Some(0)>>,
      <<Undefined, Undefined, Days(1), Some(60)>>,
      <<Some(Days(1)), Undefined, Days(1), Some(60)>>,
      <<Some(Days(1) + Minutes(490)), Some(Days(3)), Days(1), Some(60)>> }

DurationFamily(ts) ==
    \E n \in 1..2 : \E f \in [1..n -> DurationProfiles] :
        \E E \in EdgeSets(n, {"depends_on"}, 2) :
            ts = [i \in 1..n |-> PathTask(TaskIds[i], f[i], DependenciesOf(E, i))]

PathInputs(ts) ==
    PathFamily(ts) \/ TypedFamily(ts) \/ LinkFamily(ts) \/ DurationFamily(ts)

\* Values of Date.now()
NowValues == {Days(3), Days(9)}

-----------------------------------------------------------------------------
(* The client's rate limiting (constructor, updateRateLimitInfo,           *)
(* handleApiError, makeRequest, processQueue).                             *)
(* The code reads the clock only to compare it with resetTime and to       *)
(* compute resetTime - Date.now(), so the clock is kept relative:          *)
(* rateLimitInfo.resetTime holds resetTime - Date.now(), in ticks, and     *)
(* stops at Past once the clock is beyond resetTime.  A window of 60000 ms *)
(* is TicksPerWindow ticks.                                                *)

TicksPerWindow == 2

\* config.rateLimit || 60
DefaultRateLimit == 60

\* The values of config.rateLimit of the runs of the client
RateLimits == {1, 2}

\* The number of calls of makeRequest in a run
MaxRequests == 4

RequestIds == 1..MaxRequests

\* resetTime - Date.now() once Date.now() > resetTime
Past == -1

\* The responses of the server: the HTTP status (0: no response, a network
\* error or the axios timeout) and, for 429, the retry-after header in ticks
\* (an absent header counts as '60' seconds, one window)
Responses ==
    { [status |-> 200, retryAfter |-> 0],
      [status |-> 500, retryAfter |-> 0],
      [status |-> 0, retryAfter |-> 0],
      [status |-> 429, retryAfter |-> 1],
      [status |-> 429, retryAfter |-> TicksPerWindow] }

\* A call of makeRequest: state is "new" before the call, "queued" while in
\* requestQueue, "sent" while requestFn() is pending, then "resolved" or
\* "rejected" as the caller's promise is; status is the HTTP status it ended
\* with; sends counts the calls of requestFn(); age is the ticks since the
\* last of them, up to TicksPerWindow; queued tells that it went through
\* requestQueue.
NewRequest ==
    [state |-> "new", status |-> 0, sends |-> 0, age |-> 0, queued |-> FALSE]

NoTimers == [d \in 0..TicksPerWindow |-> 0]

\* Lines 45-51: the state the constructor leaves
ClientConstructed(limit) ==
    /\ rateLimitInfo = [remaining |-> limit, resetTime |-> TicksPerWindow,
                        limit |-> limit]
    /\ requestQueue = <<>>
    /\ isProcessingQueue = FALSE
    /\ requests = [r \in RequestIds |-> NewRequest]
    /\ timers = NoTimers
    /\ awaiting = Undefined

\* The client's fields as one record, for the methods that update several
Client ==
    [rateLimitInfo |-> rateLimitInfo, requestQueue |-> requestQueue,
     isProcessingQueue |-> isProcessingQueue, requests |-> requests,
     timers |-> timers, awaiting |-> awaiting]

\* Lines 88-97
updateRateLimitInfo(info) ==
    IF info.resetTime < 0
    THEN [info EXCEPT !.remaining = info.limit, !.resetTime = TicksPerWindow]
    ELSE [info EXCEPT !.remaining = Max(0, info.remaining - 1)]

\* Lines 109-114
handleApiError(info, response) ==
    IF response.status = 429
    THEN [info EXCEPT !.resetTime = response.retryAfter, !.remaining = 0]
    ELSE info

\* Lines 65-85: the response interceptor
ResponseInterceptor(info, response) ==
    IF response.status = 200 THEN updateRateLimitInfo(info)
    ELSE IF response.status # 0
    THEN handleApiError(updateRateLimitInfo(info), response)
    ELSE info

\* requestFn(): the request goes to the server
SendRequest(c, r) ==
    [c EXCEPT !.requests[r].state = "sent",
              !.requests[r].sends = @ + 1,
              !.requests[r].age = 0]

\* processQueue from the test of its while loop (lines 164-181) up to the
\* await of a request or to the end
ProcessQueueLoop(c) ==
    IF Len(c.requestQueue) > 0 /\ c.rateLimitInfo.remaining > 0
    THEN LET request == Head(c.requestQueue)
         IN  [SendRequest(c, request) EXCEPT !.requestQueue = Tail(@),
                                             !.awaiting = Some(request)]
    ELSE LET done == [c EXCEPT !.isProcessingQueue = FALSE, !.awaiting = Undefined]
             waitTime == Max(0, c.rateLimitInfo.resetTime)
         IN  IF Len(c.requestQueue) > 0
             THEN [done EXCEPT !.timers[waitTime] = @ + 1]
             ELSE done

\* processQueue without the test of isProcessingQueue
processQueue_NoGuard(c) ==
    IF Len(c.requestQueue) = 0
    THEN c
    ELSE ProcessQueueLoop([c EXCEPT !.isProcessingQueue = TRUE])

\* Lines 157-182, up to the first await
processQueue(c) ==
    IF c.isProcessingQueue \/ Len(c.requestQueue) = 0
    THEN c
    ELSE ProcessQueueLoop([c EXCEPT !.isProcessingQueue = TRUE])

\* Lines 138-155
makeRequest(c, r) ==
    IF c.rateLimitInfo.remaining <= 0 /\ c.rateLimitInfo.resetTime > 0
    THEN processQueue([c EXCEPT !.requestQueue = Append(@, r),
                               !.requests[r].state = "queued",
                               !.requests[r].queued = TRUE])
    ELSE SendRequest(c, r)

-----------------------------------------------------------------------------
(* The operations *)

InitCommon ==
    /\ pc = "timeline"
    /\ now = Undefined
    /\ timeline = Undefined
    /\ conflicts = Undefined
    /\ dependencyGraph = <<>>
    /\ reverseDependencyGraph = <<>>
    /\ earliestStart = <<>>
    /\ earliestFinish = <<>>
    /\ latestStart = <<>>
    /\ latestFinish = <<>>
    /\ projectEndTime = Undefined
    /\ loopIndex = 1
    /\ callStack = <<>>
    /\ result = Undefined
    /\ issues = <<>>
    /\ issueIndex = 1
    /\ serverLinks = {}
    /\ ClientConstructed(DefaultRateLimit)

\* calculateCriticalPath(projectId): getGanttData, then the critical path
Init ==
    /\ caller = "calculateCriticalPath"
    /\ PathInputs(tasks)
    /\ InitCommon

\* getGanttData(filter)
InitGantt ==
    /\ caller = "getGanttData"
    /\ GanttInputs(tasks)
    /\ InitCommon

\* getGanttData: const timeline = this.calculateTimeline(tasks)
CalculateTimeline ==
    /\ pc = "timeline"
    /\ \E t \in NowValues :
          /\ now' = IF Len(tasks) = 0 THEN Some(t) ELSE now
          /\ timeline' = Some(calculateTimeline(tasks, t))
    /\ pc' = "conflicts"
    /\ UNCHANGED <<caller, tasks, conflicts>>
    /\ UNCHANGED cpVars
    /\ UNCHANGED <<buildVars, clientVars>>

\* getGanttData: const conflicts = this.detectConflicts(tasks), and the return
DetectConflicts ==
    /\ pc = "conflicts"
    /\ conflicts' = Some(detectConflicts(tasks))
    /\ pc' = IF caller = "calculateCriticalPath" THEN "critical_path" ELSE "done"
    /\ UNCHANGED <<caller, tasks, now, timeline>>
    /\ UNCHANGED cpVars
    /\ UNCHANGED <<buildVars, clientVars>>

-----------------------------------------------------------------------------
(* calculateCriticalPath after getGanttData.  The recursive closures       *)
(* calculateEarliestTimes and calculateLatestTimes run on callStack: one   *)
(* record per activation, holding the task, the position of its for loop   *)
(* (next) and its local maxPredecessorFinish or minSuccessorStart (value). *)

Keys == TaskIdSeq(tasks)

Top == callStack[Len(callStack)]

Caller == SubSeq(callStack, 1, Len(callStack) - 1)

\* The task the running code calls the closure on next, if any: the for loop
\* over taskMap.keys() when no activation is live, else the loop of the top one.
Callee(graph) ==
    IF callStack = <<>>
    THEN IF loopIndex <= Len(Keys) THEN Some(Keys[loopIndex]) ELSE Undefined
    ELSE IF Top.next <= Len(graph[Top.taskId])
         THEN Some(graph[Top.taskId][Top.next])
         ELSE Undefined

PassGraph == IF pc = "forward" THEN dependencyGraph ELSE reverseDependencyGraph

PassMemo == IF pc = "forward" THEN earliestStart ELSE latestFinish

IsCriticalSlack_Zero(slackMs) == slackMs = 0

\* Math.abs(slack) < 0.01 with slack = slackMs / MsPerDay: MsPerDay is a
\* multiple of 100, so this is |slackMs| < MsPerDay / 100
IsCriticalSlack(slackMs) == Abs(slackMs) < MsPerDay \div 100

\* The duration reported per task, in days, as a fraction
TaskDurationDays(task) ==
    IF Truthy(task.dueDate) /\ Truthy(task.startDate)
    THEN [num |-> task.dueDate[1] - task.startDate[1], den |-> MsPerDay]
    ELSE [num |-> OrElse(task.estimation, 480), den |-> 60 * 24]

\* Lines 2360-2403: slack, the critical tasks, the sorted result.  slack and
\* duration are numerators over MsPerDay.
CriticalPathResult(ts, es, ls, projectEnd) ==
    LET keys == TaskIdSeq(ts)
        SlackOf(id) == ls[id] - es[id]
        IsCritical(id) == IsCriticalSlack(SlackOf(id))
        EarliestOf(id) == es[id]
        criticalTasks == SelectSeq(keys, IsCritical)
        Metric(id) == [idReadable |-> id,
                       duration |-> TaskDurationDays(TaskMapGet(ts, id)),
                       slack |-> SlackOf(id)]
        criticalPathTasks == MapSeq(keys, Metric)
    IN  [path |-> StableSort(criticalTasks, MapSeq(criticalTasks, EarliestOf)),
         duration |-> projectEnd - SetMin(MapValues(es)),
         tasks |-> StableSort(criticalPathTasks, MapSeq(keys, SlackOf))]

\* Lines 2260-2288: the empty result, or the two graphs
CriticalPathStart ==
    /\ pc = "critical_path"
    /\ IF Len(tasks) = 0
       THEN /\ result' = Some([path |-> <<>>, duration |-> 0, tasks |-> <<>>])
            /\ pc' = "done"
            /\ UNCHANGED <<dependencyGraph, reverseDependencyGraph>>
       ELSE /\ dependencyGraph' = BuildDependencyGraph(tasks)
            /\ reverseDependencyGraph' = BuildReverseDependencyGraph(tasks)
            /\ pc' = "forward"
            /\ UNCHANGED result
    /\ UNCHANGED <<caller, tasks, now, timeline, conflicts, earliestStart,
                   earliestFinish, latestStart, latestFinish, projectEndTime,
                   loopIndex, callStack>>
    /\ UNCHANGED <<buildVars, clientVars>>

\* calculateEarliestTimes(taskId) on a task already in earliestStart: it
\* returns at once, and the caller goes on
EarliestTimesMemoized ==
    /\ pc = "forward"
    /\ Callee(dependencyGraph) # Undefined
    /\ LET c == Callee(dependencyGraph)[1]
       IN  /\ c \in DOMAIN earliestStart
           /\ IF callStack = <<>>
              THEN /\ loopIndex' = loopIndex + 1
                   /\ UNCHANGED callStack
              ELSE /\ callStack' = [callStack EXCEPT ![Len(callStack)] =
                          [@ EXCEPT !.next = @ + 1,
                                    !.value = Max(@, earliestFinish[c])]]
                   /\ UNCHANGED loopIndex
    /\ UNCHANGED <<caller, tasks, pc, now, timeline, conflicts, dependencyGraph,
                   reverseDependencyGraph, earliestStart, earliestFinish,
                   latestStart, latestFinish, projectEndTime, result>>
    /\ UNCHANGED <<buildVars, clientVars>>

\* calculateEarliestTimes(depId) on an id that taskMap does not hold:
\* task is undefined and task.startDate throws TypeError
EarliestTimesTypeError ==
    /\ pc = "forward"
    /\ Callee(dependencyGraph) # Undefined
    /\ Callee(dependencyGraph)[1] \notin DOMAIN earliestStart
    /\ Callee(dependencyGraph)[1] \notin TaskIdSet(tasks)
    /\ pc' = "TypeError"
    /\ UNCHANGED <<caller, tasks, now, timeline, conflicts>>
    /\ UNCHANGED cpVars
    /\ UNCHANGED <<buildVars, clientVars>>

\* calculateEarliestTimes(taskId) entered: lines 2295-2300
EarliestTimesCall ==
    /\ pc = "forward"
    /\ Callee(dependencyGraph) # Undefined
    /\ LET c == Callee(dependencyGraph)[1]
       IN  /\ c \notin DOMAIN earliestStart
           /\ c \in TaskIdSet(tasks)
           /\ Len(callStack) < MaxCallDepth
           /\ callStack' = Append(callStack,
                  [taskId |-> c, next |-> 1,
                   value |-> TaskStart(TaskMapGet(tasks, c))])
    /\ UNCHANGED <<caller, tasks, pc, now, timeline, conflicts, dependencyGraph,
                   reverseDependencyGraph, earliestStart, earliestFinish,
                   latestStart, latestFinish, projectEndTime, loopIndex, result>>
    /\ UNCHANGED <<buildVars, clientVars>>

\* A call of either closure that the call stack has no room for
CallStackOverflow ==
    /\ pc \in {"forward", "backward"}
    /\ Callee(PassGraph) # Undefined
    /\ Callee(PassGraph)[1] \notin DOMAIN PassMemo
    /\ Callee(PassGraph)[1] \in TaskIdSet(tasks)
    /\ Len(callStack) >= MaxCallDepth
    /\ pc' = "RangeError"
    /\ UNCHANGED <<caller, tasks, now, timeline, conflicts>>
    /\ UNCHANGED cpVars
    /\ UNCHANGED <<buildVars, clientVars>>

\* calculateEarliestTimes: lines 2308-2314, the return, and the caller's
\* lines 2304-2305 when the caller is an activation
EarliestTimesReturn ==
    /\ pc = "forward"
    /\ callStack # <<>>
    /\ Callee(dependencyGraph) = Undefined
    /\ LET finish == Top.value + TaskDuration(TaskMapGet(tasks, Top.taskId))
       IN  /\ earliestStart' = MapSet(earliestStart, Top.taskId, Top.value)
           /\ earliestFinish' = MapSet(earliestFinish, Top.taskId, finish)
           /\ IF Caller = <<>>
              THEN /\ callStack' = <<>>
                   /\ loopIndex' = loopIndex + 1
              ELSE /\ callStack' = [Caller EXCEPT ![Len(Caller)] =
                          [@ EXCEPT !.next = @ + 1, !.value = Max(@, finish)]]
                   /\ UNCHANGED loopIndex
    /\ UNCHANGED <<caller, tasks, pc, now, timeline, conflicts, dependencyGraph,
                   reverseDependencyGraph, latestStart, latestFinish,
                   projectEndTime, result>>
    /\ UNCHANGED <<buildVars, clientVars>>

\* Line 2322: the forward loop is over
ForwardPassDone ==
    /\ pc = "forward"
    /\ callStack = <<>>
    /\ loopIndex > Len(Keys)
    /\ projectEndTime' = Some(SetMax(MapValues(earliestFinish)))
    /\ loopIndex' = 1
    /\ pc' = "backward"
    /\ UNCHANGED <<caller, tasks, now, timeline, conflicts, dependencyGraph,
                   reverseDependencyGraph, earliestStart, earliestFinish,
                   latestStart, latestFinish, callStack, result>>
    /\ UNCHANGED <<buildVars, clientVars>>

\* calculateLatestTimes(taskId) on a task already in latestFinish
LatestTimesMemoized ==
    /\ pc = "backward"
    /\ Callee(reverseDependencyGraph) # Undefined
    /\ LET c == Callee(reverseDependencyGraph)[1]
       IN  /\ c \in DOMAIN latestFinish
           /\ IF callStack = <<>>
              THEN /\ loopIndex' = loopIndex + 1
                   /\ UNCHANGED callStack
              ELSE /\ callStack' = [callStack EXCEPT ![Len(callStack)] =
                          [@ EXCEPT !.next = @ + 1,
                                    !.value = Min(@, latestStart[c])]]
                   /\ UNCHANGED loopIndex
    /\ UNCHANGED <<caller, tasks, pc, now, timeline, conflicts, dependencyGraph,
                   reverseDependencyGraph, earliestStart, earliestFinish,
                   latestStart, latestFinish, projectEndTime, result>>
    /\ UNCHANGED <<buildVars, clientVars>>

InitialSuccessorStart_ProjectEnd(taskId) == projectEndTime[1]

\* minSuccessorStart as lines 2334-2339 leave it before the loop
InitialSuccessorStart(taskId) ==
    IF Len(reverseDependencyGraph[taskId]) = 0
    THEN earliestFinish[taskId]
    ELSE projectEndTime[1]

\* calculateLatestTimes(taskId) entered: lines 2329-2339
LatestTimesCall ==
    /\ pc = "backward"
    /\ Callee(reverseDependencyGraph) # Undefined
    /\ LET c == Callee(reverseDependencyGraph)[1]
       IN  /\ c \notin DOMAIN latestFinish
           /\ Len(callStack) < MaxCallDepth
           /\ callStack' = Append(callStack,
                  [taskId |-> c,
                   next |-> 1,
                   value |-> InitialSuccessorStart(c)])
    /\ UNCHANGED <<caller, tasks, pc, now, timeline, conflicts, dependencyGraph,
                   reverseDependencyGraph, earliestStart, earliestFinish,
                   latestStart, latestFinish, projectEndTime, loopIndex, result>>
    /\ UNCHANGED <<buildVars, clientVars>>

\* calculateLatestTimes: lines 2347-2353, the return, and the caller's
\* lines 2342-2343 when the caller is an activation
LatestTimesReturn ==
    /\ pc = "backward"
    /\ callStack # <<>>
    /\ Callee(reverseDependencyGraph) = Undefined
    /\ LET start == Top.value - TaskDuration(TaskMapGet(tasks, Top.taskId))
       IN  /\ latestFinish' = MapSet(latestFinish, Top.taskId, Top.value)
           /\ latestStart' = MapSet(latestStart, Top.taskId, start)
           /\ IF Caller = <<>>
              THEN /\ callStack' = <<>>
                   /\ loopIndex' = loopIndex + 1
              ELSE /\ callStack' = [Caller EXCEPT ![Len(Caller)] =
                          [@ EXCEPT !.next = @ + 1, !.value = Min(@, start)]]
                   /\ UNCHANGED loopIndex
    /\ UNCHANGED <<caller, tasks, pc, now, timeline, conflicts, dependencyGraph,
                   reverseDependencyGraph, earliestStart, earliestFinish,
                   projectEndTime, result>>
    /\ UNCHANGED <<buildVars, clientVars>>

\* Lines 2360-2403: the backward loop is over; the result
CriticalPathReturn ==
    /\ pc = "backward"
    /\ callStack = <<>>
    /\ loopIndex > Len(Keys)
    /\ result' = Some(CriticalPathResult(tasks, earliestStart, latestStart,
                                         projectEndTime[1]))
    /\ pc' = "done"
    /\ UNCHANGED <<caller, tasks, now, timeline, conflicts, dependencyGraph,
                   reverseDependencyGraph, earliestStart, earliestFinish,
                   latestStart, latestFinish, projectEndTime, loopIndex,
                   callStack>>
    /\ UNCHANGED <<buildVars, clientVars>>

Next ==
    \/ CalculateTimeline
    \/ DetectConflicts
    \/ CriticalPathStart
    \/ EarliestTimesMemoized
    \/ EarliestTimesTypeError
    \/ EarliestTimesCall
    \/ CallStackOverflow
    \/ EarliestTimesReturn
    \/ ForwardPassDone
    \/ LatestTimesMemoized
    \/ LatestTimesCall
    \/ LatestTimesReturn
    \/ CriticalPathReturn

NextGantt ==
    \/ CalculateTimeline
    \/ DetectConflicts

Spec == Init /\ [][Next]_vars

SpecGantt == InitGantt /\ [][NextGantt]_vars

-----------------------------------------------------------------------------
(* getGanttData from the issues of the search: the loop that builds the    *)
(* tasks (lines 1705-1721) with convertIssueToGanttTaskSimplified.         *)
(* An issue is the server's JSON: idReadable and project may be missing.   *)
(* The value undefined of a task's idReadable, which the code then uses as *)
(* a Map key and lists in taskIds, is written NoIdReadable; no issue bears *)
(* it as its id.                                                           *)

NoIdReadable == "undefined"

MaxIssues == 3

\* field.name.toLowerCase() of the custom fields of the issues
FieldNameLowerCase(name) ==
    CASE name = "Start Date" -> "start date"
      [] name = "Planned Start Date" -> "planned start date"
      [] name = "Due Date" -> "due date"
      [] name = "End Date" -> "end date"
      [] name = "Estimation" -> "estimation"

\* Lines 3051-3057, on the names above
isStartDateField(fieldName) == fieldName \in {"start date", "planned start date"}

\* Lines 3062-3076, on the names above
isDueDateField(fieldName) == fieldName \in {"due date", "end date"}

\* Lines 2997-3028, for a value that is absent or a number
parseDateFieldValue(fieldValue) ==
    IF ~Truthy(fieldValue) THEN Undefined ELSE fieldValue

\* Lines 1763-1817: the loop over issue.customFields, for the date fields and
\* the estimation (whose value is { minutes })
RECURSIVE CustomFieldsLoop(_, _, _)
CustomFieldsLoop(customFields, k, acc) ==
    IF k > Len(customFields) THEN acc
    ELSE LET field == customFields[k]
             fieldName == FieldNameLowerCase(field.name)
             parsedDate == parseDateFieldValue(field.value)
         IN  CustomFieldsLoop(customFields, k + 1,
                 IF isStartDateField(fieldName)
                 THEN IF Truthy(parsedDate)
                      THEN [acc EXCEPT !.startDate = parsedDate] ELSE acc
                 ELSE IF isDueDateField(fieldName)
                 THEN IF Truthy(parsedDate)
                      THEN [acc EXCEPT !.dueDate = parsedDate] ELSE acc
                 ELSE IF fieldName = "estimation" /\ field.value # Undefined
                 THEN [acc EXCEPT !.estimation = Some(OrElse(field.value, 0))]
                 ELSE acc)

\* The conversion with the dependencies read from the issue's links, as
\* convertIssueToGanttTask has them
convertIssueToGanttTaskSimplified_WithLinks(issue) ==
    LET fields == CustomFieldsLoop(issue.customFields, 1,
                      [startDate |-> Undefined, dueDate |-> Undefined,
                       estimation |-> Undefined])
    IN  IF issue.project = Undefined
        THEN [thrown |-> TRUE]
        ELSE [thrown |-> FALSE,
              task |-> GanttTask(IF issue.idReadable = Undefined
                                 THEN NoIdReadable ELSE issue.idReadable[1],
                                 issue.assignee, fields.startDate, fields.dueDate,
                                 issue.created, issue.updated, issue.resolved,
                                 fields.estimation,
                                 IF issue.idReadable = Undefined THEN <<>>
                                 ELSE getIssueDependenciesForGantt(serverLinks,
                                          issue.idReadable[1]))]

\* Lines 1752-1853: the task, or the TypeError of issue.project.id when the
\* issue has no project
convertIssueToGanttTaskSimplified(issue) ==
    LET fields == CustomFieldsLoop(issue.customFields, 1,
                      [startDate |-> Undefined, dueDate |-> Undefined,
                       estimation |-> Undefined])
    IN  IF issue.project = Undefined
        THEN [thrown |-> TRUE]
        ELSE [thrown |-> FALSE,
              task |-> GanttTask(IF issue.idReadable = Undefined
                                 THEN NoIdReadable ELSE issue.idReadable[1],
                                 issue.assignee, fields.startDate, fields.dueDate,
                                 issue.created, issue.updated, issue.resolved,
                                 fields.estimation, <<>>)]

\* The custom fields of the issues of the search
CustomFieldOptions ==
    { <<>>,
      << [name |-> "Start Date", value |-> Some(Days(1))],
         [name |-> "Due Date", value |-> Some(Days(5))] >>,
      << [name |-> "Start Date", value |-> Some(0)],
         [name |-> "Estimation", value |-> Some(60)] >>,
      << [name |-> "Start Date", value |-> Some(Days(1))],
         [name |-> "Planned Start Date", value |-> Some(Days(3))],
         [name |-> "Due Date", value |-> Some(Days(5))],
         [name |-> "End Date", value |-> Some(Days(7))] >>,
      << [name |-> "Start Date", value |-> Undefined],
         [name |-> "Planned Start Date", value |-> Some(Days(3))],
         [name |-> "End Date", value |-> Some(Days(7))] >> }

\* searchResult.items: issue i is TaskIds[i] of project P, unless the server's
\* JSON lacks the one or the other
IssueFamily(is) ==
    \E n \in 0..MaxIssues :
        \E f \in [1..n -> BOOLEAN \X BOOLEAN \X CustomFieldOptions] :
            is = [i \in 1..n |->
                    [idReadable |-> IF f[i][1] THEN Some(TaskIds[i]) ELSE Undefined,
                     project |-> IF f[i][2] THEN Some("P") ELSE Undefined,
                     assignee |-> Undefined,
                     created |-> Days(1), updated |-> Days(2),
                     resolved |-> Undefined,
                     customFields |-> f[i][3]]]

InitBuild ==
    /\ caller = "getGanttData"
    /\ IssueFamily(issues)
    /\ issueIndex = 1
    /\ serverLinks = {}
    /\ tasks = <<>>
    /\ pc = IF issues = <<>> THEN "timeline" ELSE "convert"
    /\ now = Undefined
    /\ timeline = Undefined
    /\ conflicts = Undefined
    /\ dependencyGraph = <<>>
    /\ reverseDependencyGraph = <<>>
    /\ earliestStart = <<>>
    /\ earliestFinish = <<>>
    /\ latestStart = <<>>
    /\ latestFinish = <<>>
    /\ projectEndTime = Undefined
    /\ loopIndex = 1
    /\ callStack = <<>>
    /\ result = Undefined
    /\ ClientConstructed(DefaultRateLimit)

\* Lines 1705-1721: one turn of the loop; an issue whose conversion throws is
\* skipped by the catch
ConvertIssue ==
    /\ pc = "convert"
    /\ LET converted == convertIssueToGanttTaskSimplified(issues[issueIndex])
       IN  tasks' = IF converted.thrown THEN tasks
                    ELSE Append(tasks, converted.task)
    /\ issueIndex' = issueIndex + 1
    /\ pc' = IF issueIndex + 1 > Len(issues) THEN "timeline" ELSE "convert"
    /\ UNCHANGED <<caller, now, timeline, conflicts, issues, serverLinks>>
    /\ UNCHANGED cpVars
    /\ UNCHANGED clientVars

\* calculateCriticalPath(projectId) from its first line: the issues of the
\* search, the links the server holds between A and B, and the client as
\* constructed
LinkedIssueFamily(is, L) ==
    /\ L \in LinkSets
    /\ \E f \in [1..2 -> CustomFieldOptions] :
          is = [i \in 1..2 |->
                  [idReadable |-> Some(TaskIds[i]), project |-> Some("P"),
                   assignee |-> Undefined,
                   created |-> Days(1), updated |-> Days(2),
                   resolved |-> Undefined,
                   customFields |-> f[i]]]

InitPublic ==
    /\ caller = "calculateCriticalPath"
    /\ \/ IssueFamily(issues) /\ serverLinks = {}
       \/ LinkedIssueFamily(issues, serverLinks)
    /\ issueIndex = 1
    /\ tasks = <<>>
    /\ pc = IF issues = <<>> THEN "timeline" ELSE "convert"
    /\ now = Undefined
    /\ timeline = Undefined
    /\ conflicts = Undefined
    /\ dependencyGraph = <<>>
    /\ reverseDependencyGraph = <<>>
    /\ earliestStart = <<>>
    /\ earliestFinish = <<>>
    /\ latestStart = <<>>
    /\ latestFinish = <<>>
    /\ projectEndTime = Undefined
    /\ loopIndex = 1
    /\ callStack = <<>>
    /\ result = Undefined
    /\ ClientConstructed(DefaultRateLimit)

NextBuild ==
    \/ ConvertIssue
    \/ CalculateTimeline
    \/ DetectConflicts

SpecBuild == InitBuild /\ [][NextBuild]_vars

\* calculateCriticalPath on the tasks getGanttData built: the steps that the
\* tasks of convertIssueToGanttTaskSimplified can take
NextPublic ==
    \/ ConvertIssue
    \/ CalculateTimeline
    \/ DetectConflicts
    \/ CriticalPathStart
    \/ EarliestTimesCall
    \/ EarliestTimesReturn
    \/ ForwardPassDone
    \/ LatestTimesCall
    \/ LatestTimesReturn
    \/ CriticalPathReturn

SpecPublic == InitPublic /\ [][NextPublic]_vars

-----------------------------------------------------------------------------
(* The client under calls of makeRequest, responses of the server, timers  *)
(* and the clock                                                           *)

SetClient(c) ==
    /\ rateLimitInfo' = c.rateLimitInfo
    /\ requestQueue' = c.requestQueue
    /\ isProcessingQueue' = c.isProcessingQueue
    /\ requests' = c.requests
    /\ timers' = c.timers
    /\ awaiting' = c.awaiting

InitClient ==
    /\ caller = "makeRequest"
    /\ tasks = <<>>
    /\ pc = "done"
    /\ now = Undefined
    /\ timeline = Undefined
    /\ conflicts = Undefined
    /\ dependencyGraph = <<>>
    /\ reverseDependencyGraph = <<>>
    /\ earliestStart = <<>>
    /\ earliestFinish = <<>>
    /\ latestStart = <<>>
    /\ latestFinish = <<>>
    /\ projectEndTime = Undefined
    /\ loopIndex = 1
    /\ callStack = <<>>
    /\ result = Undefined
    /\ issues = <<>>
    /\ issueIndex = 1
    /\ serverLinks = {}
    /\ \E limit \in RateLimits : ClientConstructed(limit)

\* A method of the client calls this.makeRequest(requestFn)
MakeRequest ==
    /\ \E r \in RequestIds :
          /\ requests[r].state = "new"
          /\ \A q \in RequestIds : q < r => requests[q].state # "new"
          /\ SetClient(makeRequest(Client, r))
    /\ UNCHANGED <<engineVars, buildVars>>

\* The server answers a pending request, or the request fails without an
\* answer: the interceptor runs, the promise of requestFn() settles, and when
\* processQueue awaits this request its loop goes on
Respond ==
    /\ \E r \in RequestIds : \E response \in Responses :
          /\ requests[r].state = "sent"
          /\ LET settled ==
                     [Client EXCEPT
                        !.rateLimitInfo = ResponseInterceptor(@, response),
                        !.requests[r].state =
                            IF response.status = 200 THEN "resolved" ELSE "rejected",
                        !.requests[r].status = response.status]
             IN  SetClient(IF awaiting = Some(r)
                           THEN ProcessQueueLoop(settled)
                           ELSE settled)
    /\ UNCHANGED <<engineVars, buildVars>>

\* A timer set by processQueue is due: () => this.processQueue()
TimerFires ==
    /\ timers[0] > 0
    /\ SetClient(processQueue([Client EXCEPT !.timers[0] = @ - 1]))
    /\ UNCHANGED <<engineVars, buildVars>>

\* The clock advances by one tick
Tick ==
    /\ rateLimitInfo' = [rateLimitInfo EXCEPT !.resetTime = Max(@ - 1, Past)]
    /\ timers' = [d \in 0..TicksPerWindow |->
                     IF d = 0 THEN timers[0] + timers[1]
                     ELSE IF d < TicksPerWindow THEN timers[d + 1]
                     ELSE 0]
    /\ requests' = [r \in RequestIds |->
                     IF requests[r].sends > 0
                     THEN [requests[r] EXCEPT !.age = Min(@ + 1, TicksPerWindow)]
                     ELSE requests[r]]
    /\ UNCHANGED <<requestQueue, isProcessingQueue, awaiting>>
    /\ UNCHANGED <<engineVars, buildVars>>

NextClient ==
    \/ MakeRequest
    \/ Respond
    \/ TimerFires
    \/ Tick

SpecClient == InitClient /\ [][NextClient]_vars

\* The event loop runs a due timer, the clock advances, and every pending
\* request ends (with an answer, or with the axios timeout); nothing makes
\* the callers issue further requests
SpecClientFair ==
    /\ InitClient
    /\ [][NextClient]_vars
    /\ WF_vars(Respond)
    /\ WF_vars(TimerFires)
    /\ WF_vars(Tick)

-----------------------------------------------------------------------------
(* Properties of calculateCriticalPath *)

Finished == pc = "done" /\ result # Undefined

\* The slack (numerator over MsPerDay) reported for task id
ReportedSlack(id) ==
    LET r == result[1].tasks
    IN  r[CHOOSE k \in 1..Len(r) : r[k].idReadable = id].slack

\* Tasks a, b, c (positions in the list) are the three tasks of the example:
\* one own start time; a has no dependencies and lasts 2 days, b depends on a
\* and lasts 3 days, c depends on a and lasts 1 day
ThreeTaskExample(a, b, c) ==
    /\ Len(tasks) = 3
    /\ {a, b, c} = 1..3
    /\ TaskStart(tasks[a]) = TaskStart(tasks[b])
    /\ TaskStart(tasks[a]) = TaskStart(tasks[c])
    /\ TaskDuration(tasks[a]) = Days(2)
    /\ TaskDuration(tasks[b]) = Days(3)
    /\ TaskDuration(tasks[c]) = Days(1)
    /\ tasks[a].dependencies = <<>>
    /\ tasks[b].dependencies = <<GanttDependency("depends_on", tasks[a].idReadable)>>
    /\ tasks[c].dependencies = <<GanttDependency("depends_on", tasks[a].idReadable)>>

\* C1: for the three tasks of the example, calculateCriticalPath returns the
\* critical path [A, B], a total duration of 5 days and a slack of 2 days for C.
C1_ExampleCriticalPath ==
    \A a, b, c \in 1..3 :
        (Finished /\ ThreeTaskExample(a, b, c)) =>
            /\ result[1].path = <<tasks[a].idReadable, tasks[b].idReadable>>
            /\ result[1].duration = Days(5)
            /\ ReportedSlack(tasks[c].idReadable) = Days(2)

\* C2: calculateCriticalPath ends with a result on every task set: neither
\* pass enters a task that is still in progress, and the recursion never
\* outgrows the call stack.
C2_PassesDetectReentry ==
    /\ pc # "RangeError"
    /\ \A i, j \in 1..Len(callStack) :
          i # j => callStack[i].taskId # callStack[j].taskId

HasOutOfScopeDependsOn ==
    \E i \in 1..Len(tasks) :
        \E k \in 1..Len(tasks[i].dependencies) :
            /\ tasks[i].dependencies[k].type = "depends_on"
            /\ tasks[i].dependencies[k].targetTaskIdReadable \notin TaskIdSet(tasks)

\* C3: a depends_on edge whose target is not among the scoped tasks is dropped
\* silently: calculateCriticalPath completes without an error.
C3_OutOfScopeEdgeDropped ==
    HasOutOfScopeDependsOn => pc # "TypeError"

-----------------------------------------------------------------------------
(* Properties of detectConflicts and calculateTimeline *)

ConflictsOfType(type) ==
    LET HasType(c) == c.type = type
    IN  SelectSeq(conflicts[1], HasType)

\* Every link of every task, as <<source, target>>
EdgePairs ==
    UNION {{<<tasks[i].idReadable, tasks[i].dependencies[k].targetTaskIdReadable>> :
                k \in 1..Len(tasks[i].dependencies)} : i \in 1..Len(tasks)}

LinkCount ==
    LET RECURSIVE Sum(_)
        Sum(i) == IF i > Len(tasks) THEN 0
                  ELSE Len(tasks[i].dependencies) + Sum(i + 1)
    IN  Sum(1)

PositionOf(id) == CHOOSE i \in 1..Len(tasks) : tasks[i].idReadable = id

\* The links of the task list are exactly x -> y, y -> z, z -> x
ThreeCycle(x, y, z) ==
    /\ {x, y, z} \subseteq TaskIdSet(tasks)
    /\ x # y /\ y # z /\ x # z
    /\ EdgePairs = {<<x, y>>, <<y, z>>, <<z, x>>}
    /\ LinkCount = 3

\* C4: when the only links are A -> B, B -> C and C -> A, detectConflicts
\* reports exactly one dependency cycle; it lists A, B and C in the order of
\* the links, starting and ending at the task of the cycle that comes first in
\* the task list (the first one revisited), whatever the order of the list.
C4_OneCycleForThreeTasks ==
    \A x, y, z \in TaskIdSet(tasks) :
        (/\ conflicts # Undefined
         /\ ThreeCycle(x, y, z)
         /\ PositionOf(x) < PositionOf(y)
         /\ PositionOf(x) < PositionOf(z)) =>
            /\ Len(ConflictsOfType("dependency_cycle")) = 1
            /\ ConflictsOfType("dependency_cycle")[1].taskIds = <<x, y, z, x>>

\* C4 witness: the cycle C -> B -> A -> C reported from a list that starts with C
C4_Witness ==
    /\ conflicts # Undefined
    /\ Len(tasks) = 3
    /\ tasks[1].idReadable = "C"
    /\ ThreeCycle("C", "B", "A")
    /\ Len(ConflictsOfType("dependency_cycle")) = 1

\* The simple cycles of the links among the tasks, each as the sequence of its
\* tasks starting at the one that comes first in the task list
SimpleCycles ==
    UNION { { s \in [1..Cardinality(S) -> S] :
                /\ \A i, j \in 1..Cardinality(S) : i # j => s[i] # s[j]
                /\ \A i \in 2..Cardinality(S) : PositionOf(s[1]) < PositionOf(s[i])
                /\ \A i \in 1..(Cardinality(S) - 1) : <<s[i], s[i + 1]>> \in EdgePairs
                /\ <<s[Cardinality(S)], s[1]>> \in EdgePairs }
            : S \in (SUBSET TaskIdSet(tasks)) \ {{}} }

SeveralDisjointCycles ==
    /\ Cardinality(SimpleCycles) >= 2
    /\ \A s, t \in SimpleCycles : s # t => Range(s) \cap Range(t) = {}

\* C5: when the graph holds several cycles that share no task, detectConflicts
\* emits one dependency_cycle conflict of severity high for each of them, and
\* the taskIds of each conflict are exactly the tasks of its cycle.
C5_OneConflictPerDisjointCycle ==
    (conflicts # Undefined /\ SeveralDisjointCycles) =>
        LET cc == ConflictsOfType("dependency_cycle")
        IN  /\ Len(cc) = Cardinality(SimpleCycles)
            /\ \A k \in 1..Len(cc) : cc[k].severity = "high"
            /\ \A s \in SimpleCycles :
                  Cardinality({k \in 1..Len(cc) : Range(cc[k].taskIds) = Range(s)}) = 1

HasBothDates(task) == task.startDate # Undefined /\ task.dueDate # Undefined

\* Both tasks have the same assignee and both dates, and their closed
\* intervals overlap
DoubleBooked(t1, t2) ==
    /\ t1.assignee # Undefined
    /\ t1.assignee = t2.assignee
    /\ HasBothDates(t1)
    /\ HasBothDates(t2)
    /\ t1.startDate[1] <= t2.dueDate[1]
    /\ t2.startDate[1] <= t1.dueDate[1]

\* C6: detectConflicts emits a resource_conflict for a pair of tasks exactly
\* when the two have the same assignee, both have both dates and their closed
\* intervals overlap; it emits it once, naming the two tasks, and emits no
\* other resource_conflict.
C6_ResourceConflictIffOverlap ==
    conflicts # Undefined =>
        LET rc == ConflictsOfType("resource_conflict")
        IN  /\ \A i, j \in 1..Len(tasks) :
                  i < j =>
                     Cardinality({k \in 1..Len(rc) :
                         Range(rc[k].taskIds) = {tasks[i].idReadable, tasks[j].idReadable}})
                       = IF DoubleBooked(tasks[i], tasks[j]) THEN 1 ELSE 0
            /\ \A k \in 1..Len(rc) :
                  /\ Len(rc[k].taskIds) = 2
                  /\ rc[k].taskIds[1] # rc[k].taskIds[2]
                  /\ Range(rc[k].taskIds) \subseteq TaskIdSet(tasks)

\* C6 witness: two tasks of one assignee over days [1, 5] and [5, 10] reported,
\* next to a task of that assignee over days [6, 10] that overlaps only the second
C6_Witness ==
    /\ conflicts # Undefined
    /\ Len(tasks) = 3
    /\ \A i \in 1..3 : tasks[i].assignee = Some("u1")
    /\ tasks[1].startDate = Some(Days(1)) /\ tasks[1].dueDate = Some(Days(5))
    /\ tasks[2].startDate = Some(Days(5)) /\ tasks[2].dueDate = Some(Days(10))
    /\ tasks[3].startDate = Some(Days(6)) /\ tasks[3].dueDate = Some(Days(10))
    /\ MapSeq(ConflictsOfType("resource_conflict"), LAMBDA c : c.taskIds)
          = << <<"A", "B">>, <<"B", "C">> >>

LacksADate(task) == task.startDate = Undefined \/ task.dueDate = Undefined

\* C7: detectConflicts emits at most one missing_dates conflict, of severity
\* medium; it emits it exactly when some task lacks a start date or a due date,
\* and its taskIds are the ids of exactly those tasks.
C7_MissingDatesExact ==
    conflicts # Undefined =>
        LET md == ConflictsOfType("missing_dates")
            lacking == SelectSeq(tasks, LacksADate)
        IN  /\ Len(md) <= 1
            /\ Len(md) = 1 <=> Len(lacking) > 0
            /\ Len(md) = 1 =>
                  /\ md[1].taskIds = MapSeq(lacking, IdOf)
                  /\ md[1].severity = "medium"

\* C7 witness: a task lacking only its due date is reported, and a task with
\* both dates is not
C7_Witness ==
    /\ conflicts # Undefined
    /\ Len(tasks) = 2
    /\ tasks[1].startDate # Undefined /\ tasks[1].dueDate = Undefined
    /\ HasBothDates(tasks[2])
    /\ Len(ConflictsOfType("missing_dates")) = 1
    /\ ConflictsOfType("missing_dates")[1].taskIds = <<"A">>

\* a ?? b: the value when present, 0 included
Coalesce(opt, fallback) == IF opt # Undefined THEN opt[1] ELSE fallback

\* C8: for a non-empty task list calculateTimeline returns the minimum of
\* (startDate ?? created), the maximum of (dueDate ?? resolved ?? updated) and
\* the ceiling of their difference in days; a present date is used even when 0.
C8_TimelineUsesPresentDates ==
    (timeline # Undefined /\ Len(tasks) > 0) =>
        LET start == SetMin({Coalesce(tasks[i].startDate, tasks[i].created) :
                                i \in 1..Len(tasks)})
            end == SetMax({Coalesce(tasks[i].dueDate,
                              Coalesce(tasks[i].resolved, tasks[i].updated)) :
                                i \in 1..Len(tasks)})
        IN  /\ timeline[1].startDate = start
            /\ timeline[1].endDate = end
            /\ timeline[1].duration = CeilDiv(end - start, MsPerDay)

\* C9: on an empty task list nothing fails: calculateTimeline returns
\* start = end = now and duration 0, detectConflicts returns no conflict, and
\* calculateCriticalPath returns an empty path, duration 0 and no task metric.
C9_EmptyTaskList ==
    Len(tasks) = 0 =>
        /\ pc \in {"timeline", "conflicts", "critical_path", "done"}
        /\ pc # "timeline" =>
              /\ now # Undefined
              /\ timeline = Some([startDate |-> now[1], endDate |-> now[1],
                                  duration |-> 0])
        /\ pc \in {"critical_path", "done"} => conflicts = Some(<<>>)
        /\ pc = "done" =>
              result = Some([path |-> <<>>, duration |-> 0, tasks |-> <<>>])

\* C9 witness: calculateCriticalPath has returned on an empty task list
C9_Witness ==
    /\ Len(tasks) = 0
    /\ pc = "done"
    /\ caller = "calculateCriticalPath"
    /\ result # Undefined

-----------------------------------------------------------------------------
(* Properties of the critical path and of the two passes *)

RECURSIVE SumOfDurations(_)
SumOfDurations(ids) ==
    IF ids = <<>> THEN 0
    ELSE TaskDuration(TaskMapGet(tasks, ids[1])) + SumOfDurations(Tail(ids))

\* C15: the tasks returned in path are zero-slack tasks whose durations add up
\* to the returned total project duration (both in milliseconds here).
C15_PathIsCriticalPath ==
    (Finished /\ Len(tasks) > 0) =>
        /\ \A id \in Range(result[1].path) : ReportedSlack(id) = 0
        /\ SumOfDurations(result[1].path) = result[1].duration

\* The tasks that id depends on, and the tasks that depend on id
DependenciesOfTask(id) ==
    { d \in TaskIdSet(tasks) :
        GanttDependency("depends_on", d) \in Range(TaskMapGet(tasks, id).dependencies) }

DependentsOfTask(id) == { d \in TaskIdSet(tasks) : id \in DependenciesOfTask(d) }

OwnStart(task) == IF task.startDate # Undefined THEN task.startDate[1] ELSE task.created

BackwardPassDone == Finished /\ Len(tasks) > 0

\* C19 as stated: after the backward pass a task with no dependents has
\* latestFinish = its own earliestFinish, a task with dependents has
\* latestFinish = the least latestStart of its dependents, and every task has
\* latestStart = latestFinish - duration.
C19_BackwardPassAsStated ==
    BackwardPassDone =>
        \A id \in TaskIdSet(tasks) :
            /\ DependentsOfTask(id) = {} => latestFinish[id] = earliestFinish[id]
            /\ DependentsOfTask(id) # {} =>
                  latestFinish[id] = SetMin({latestStart[d] : d \in DependentsOfTask(id)})
            /\ latestStart[id] =
                  latestFinish[id] - TaskDuration(TaskMapGet(tasks, id))

\* C19 amended: as above, but a task with dependents has latestFinish = the
\* lesser of the project end and the least latestStart of its dependents.
C19_BackwardPass ==
    BackwardPassDone =>
        \A id \in TaskIdSet(tasks) :
            /\ DependentsOfTask(id) = {} => latestFinish[id] = earliestFinish[id]
            /\ DependentsOfTask(id) # {} =>
                  latestFinish[id] =
                      Min(projectEndTime[1],
                          SetMin({latestStart[d] : d \in DependentsOfTask(id)}))
            /\ latestStart[id] =
                  latestFinish[id] - TaskDuration(TaskMapGet(tasks, id))

\* C19 witness: a finished run with a task that has a dependent and a task
\* without dependents that finishes before the project end
C19_Witness ==
    /\ BackwardPassDone
    /\ \E a \in TaskIdSet(tasks) : DependentsOfTask(a) # {}
    /\ \E c \in TaskIdSet(tasks) :
          /\ DependentsOfTask(c) = {}
          /\ earliestFinish[c] < projectEndTime[1]
          /\ latestFinish[c] = earliestFinish[c]

\* C20: after the forward pass, earliestStart of a task is the greatest of its
\* own start (startDate, or created without one) and the earliestFinish of the
\* tasks it depends on; earliestFinish = earliestStart + duration; so no task
\* starts before a task it depends on has finished.
C20_ForwardPass ==
    BackwardPassDone =>
        \A id \in TaskIdSet(tasks) :
            /\ earliestStart[id] =
                  SetMax({OwnStart(TaskMapGet(tasks, id))} \cup
                         {earliestFinish[d] : d \in DependenciesOfTask(id)})
            /\ earliestFinish[id] =
                  earliestStart[id] + TaskDuration(TaskMapGet(tasks, id))
            /\ \A d \in DependenciesOfTask(id) : earliestStart[id] >= earliestFinish[d]

\* C20 witness: a task pushed past its own start by a task it depends on, and
\* a task that starts at its startDate although it was created earlier
C20_Witness ==
    /\ BackwardPassDone
    /\ \E id \in TaskIdSet(tasks) : \E d \in DependenciesOfTask(id) :
          /\ earliestStart[id] = earliestFinish[d]
          /\ earliestStart[id] > OwnStart(TaskMapGet(tasks, id))
    /\ \E id \in TaskIdSet(tasks) :
          /\ earliestStart[id] = OwnStart(TaskMapGet(tasks, id))
          /\ earliestStart[id] > TaskMapGet(tasks, id).created

-----------------------------------------------------------------------------
(* Properties of the conflicts *)

\* C16: the description of every conflict names every task of its taskIds.
C16_DescriptionNamesTasks ==
    conflicts # Undefined =>
        \A k \in 1..Len(conflicts[1]) :
            Range(conflicts[1][k].taskIds) \subseteq Range(conflicts[1][k].descIds)

\* C17: every reported cycle starts and ends with the same task, and each
\* task of it has a link to the next.
C17_ReportedCyclesAreGenuine ==
    conflicts # Undefined =>
        LET cc == ConflictsOfType("dependency_cycle")
        IN  \A k \in 1..Len(cc) :
                LET cycle == cc[k].taskIds
                IN  /\ Len(cycle) >= 2
                    /\ cycle[1] = cycle[Len(cycle)]
                    /\ \A i \in 1..(Len(cycle) - 1) :
                          <<cycle[i], cycle[i + 1]>> \in EdgePairs

\* One dependency between a and b and no other link: a lists it as
\* depends_on b, b lists it as blocks a
OneDependency(a, b) ==
    /\ a # b
    /\ TaskMapGet(tasks, a).dependencies = <<GanttDependency("depends_on", b)>>
    /\ TaskMapGet(tasks, b).dependencies = <<GanttDependency("blocks", a)>>
    /\ LinkCount = 2

\* C18: two tasks connected only by one dependency never produce a
\* dependency_cycle conflict.
C18_OneDependencyNoCycle ==
    \A a, b \in TaskIdSet(tasks) :
        (conflicts # Undefined /\ OneDependency(a, b)) =>
            Len(ConflictsOfType("dependency_cycle")) = 0

-----------------------------------------------------------------------------
(* Properties of the rate limiting *)

Settled(r) == requests[r].state \in {"resolved", "rejected"}

\* C12: every request that makeRequest places in requestQueue is eventually
\* executed and its caller's promise settled, whether or not a further
\* request is issued afterwards.
C12_QueuedRequestsAreExecuted ==
    \A r \in RequestIds : (requests[r].state = "queued") ~> Settled(r)

\* The requests sent to the server within the window of TicksPerWindow ticks
\* that ends now
SentInWindow ==
    { r \in RequestIds : requests[r].sends > 0 /\ requests[r].age < TicksPerWindow }

\* C13: within any one window of 60 seconds the client sends at most limit
\* requests.
C13_AtMostLimitPerWindow ==
    Cardinality(SentInWindow) <= rateLimitInfo.limit

\* C14: a request the server rejects with 429 is sent again, and its caller
\* does not receive the 429 failure.
C14_RetriedAfter429 ==
    \A r \in RequestIds :
        ~(requests[r].state = "rejected" /\ requests[r].status = 429)

-----------------------------------------------------------------------------
(* Properties of the building of the tasks *)

WellFormed(issue) == issue.idReadable # Undefined /\ issue.project # Undefined

\* C11: an issue that lacks its readable id or its project yields no task and
\* is skipped; every other issue of the batch yields exactly one task, in the
\* order of the batch, and the timeline and the conflicts are those of these
\* tasks.
C11_BuildFailsPerItem ==
    (caller = "getGanttData" /\ pc = "done" /\ issues # <<>>) =>
        LET wellFormed == SelectSeq(issues, WellFormed)
        IN  /\ Len(tasks) = Len(wellFormed)
            /\ \A k \in 1..Len(tasks) :
                  tasks[k].idReadable = wellFormed[k].idReadable[1]
            /\ conflicts = Some(detectConflicts(tasks))

-----------------------------------------------------------------------------
(* More properties of calculateCriticalPath *)

\* The duration of a task as stated: dueDate - startDate with both dates,
\* else the recorded estimate (0 included), else 480 minutes; milliseconds
StatedDuration(task) ==
    IF task.startDate # Undefined /\ task.dueDate # Undefined
    THEN task.dueDate[1] - task.startDate[1]
    ELSE IF task.estimation # Undefined
    THEN Minutes(task.estimation[1])
    ELSE Minutes(480)

ReportedDuration(id) ==
    LET r == result[1].tasks
    IN  r[CHOOSE k \in 1..Len(r) : r[k].idReadable = id].duration

\* C21: the duration used by the forward pass, by the backward pass and in the
\* reported metric of every task is dueDate - startDate when both dates are
\* present, else the recorded estimate, 0 minutes included, and 480 minutes
\* only without an estimate.
C21_DurationOfEveryEstimate ==
    BackwardPassDone =>
        \A id \in TaskIdSet(tasks) :
            LET d == StatedDuration(TaskMapGet(tasks, id))
            IN  /\ earliestFinish[id] - earliestStart[id] = d
                /\ latestFinish[id] - latestStart[id] = d
                /\ ReportedDuration(id).num * (MsPerDay \div ReportedDuration(id).den) = d

\* C22: path holds exactly the tasks whose slack is below 0.01 day in absolute
\* value, each once, by earliestStart ascending.
C22_PathIsTheCriticalTasks ==
    BackwardPassDone =>
        LET path == result[1].path
        IN  /\ Range(path) =
                  { id \in TaskIdSet(tasks) :
                      /\ latestStart[id] - earliestStart[id] < MsPerDay \div 100
                      /\ earliestStart[id] - latestStart[id] < MsPerDay \div 100 }
            /\ \A i, j \in 1..Len(path) : i # j => path[i] # path[j]
            /\ \A i, j \in 1..Len(path) :
                  i < j => earliestStart[path[i]] <= earliestStart[path[j]]

\* C22 witness: a path with a task whose slack is ten minutes, a task off the
\* path, and two tasks of the path that start at different times
C22_Witness ==
    /\ BackwardPassDone
    /\ \E id \in Range(result[1].path) : latestStart[id] - earliestStart[id] = Minutes(10)
    /\ \E a, b \in Range(result[1].path) : earliestStart[a] < earliestStart[b]

\* A finished run with a task off the path
C22_OffPathWitness ==
    /\ BackwardPassDone
    /\ \E id \in TaskIdSet(tasks) : id \notin Range(result[1].path)

\* C23: the returned duration is the greatest earliestFinish minus the least
\* earliestStart (a numerator over MsPerDay), and so is at least the duration
\* of every task.
C23_TotalDuration ==
    BackwardPassDone =>
        /\ \E e \in TaskIdSet(tasks) : \E b \in TaskIdSet(tasks) :
              /\ \A id \in TaskIdSet(tasks) : earliestFinish[id] <= earliestFinish[e]
              /\ \A id \in TaskIdSet(tasks) : earliestStart[id] >= earliestStart[b]
              /\ result[1].duration = earliestFinish[e] - earliestStart[b]
        /\ \A id \in TaskIdSet(tasks) :
              result[1].duration >= TaskDuration(TaskMapGet(tasks, id))

\* C23 witness: tasks that start at different times, the last to finish not
\* being the first to start
C23_Witness ==
    /\ BackwardPassDone
    /\ \E a, b \in TaskIdSet(tasks) :
          /\ earliestStart[a] < earliestStart[b]
          /\ earliestFinish[a] < earliestFinish[b]
          /\ result[1].duration > earliestFinish[b] - earliestStart[b]

NonNegativeDurations ==
    \A i \in 1..Len(tasks) : TaskDuration(tasks[i]) >= 0

\* C28: when no task has a negative duration, no task has negative slack,
\* and every task without dependents has slack 0 and is on the path.
C28_SlackNonNegative ==
    (BackwardPassDone /\ NonNegativeDurations) =>
        \A id \in TaskIdSet(tasks) :
            /\ latestStart[id] >= earliestStart[id]
            /\ ReportedSlack(id) >= 0
            /\ DependentsOfTask(id) = {} =>
                  /\ ReportedSlack(id) = 0
                  /\ id \in Range(result[1].path)

\* C28 witness: a task with positive slack, and a task without dependents on
\* the path
C28_Witness ==
    /\ BackwardPassDone
    /\ NonNegativeDurations
    /\ \E id \in TaskIdSet(tasks) : ReportedSlack(id) > 0
    /\ \E id \in Range(result[1].path) : DependentsOfTask(id) = {}

C24_AcyclicWitness ==
    /\ conflicts # Undefined
    /\ Cardinality(EdgePairs) >= 3
    /\ SimpleCycles = {}
    /\ Len(ConflictsOfType("dependency_cycle")) = 0

\* The <<OUTWARD, INWARD>> dependency types stated for a link type name
StatedTypes(linkTypeName) ==
    IF Includes(linkTypeName, "depend") THEN { <<"depends_on", "blocks">> }
    ELSE IF Includes(linkTypeName, "block") THEN { <<"blocks", "depends_on">> }
    ELSE IF Includes(linkTypeName, "subtask") \/ Includes(linkTypeName, "parent")
    THEN { <<"subtask_of", "parent_of">>, <<"parent_of", "subtask_of">> }
    ELSE { <<"relates_to", "relates_to">> }

DependencySet(id) == Range(TaskMapGet(tasks, id).dependencies)

\* C25: every link between two issues gives the issue on its outward side and
\* the issue on its inward side the dependency types stated for its type name:
\* depends_on and blocks for "depend", blocks and depends_on for "block", one
\* of subtask_of and parent_of for each direction of "subtask" and "parent",
\* relates_to otherwise.
C25_ClassifiedByNameAndDirection ==
    \A L \in LinkSets :
        tasks = TasksOfLinks[L] =>
            \A l \in L :
                l.source # l.target =>
                    \E p \in StatedTypes(ToLowerCase(l.name)) :
                        /\ GanttDependency(p[1], l.target) \in DependencySet(l.source)
                        /\ GanttDependency(p[2], l.source) \in DependencySet(l.target)

SelfLinks(L) == { l \in L : l.source = l.target }

\* The cycle-detection graph and, once built, the critical-path graph have
\* the edge id -> id
SelfEdgeOfConflictGraph(id) == id \in Range(ConflictGraph(tasks)[id])

SelfEdgeOfDependencyGraph(id) ==
    id \in DOMAIN dependencyGraph /\ id \in Range(dependencyGraph[id])

\* C27 as stated: a link from a task to itself is an edge of the graph used
\* for cycle detection and is not an edge of the critical-path graph.
C27_SelfLinkRetained ==
    \A L \in LinkSets :
        (conflicts # Undefined /\ tasks = TasksOfLinks[L]) =>
            \A l \in SelfLinks(L) :
                /\ SelfEdgeOfConflictGraph(l.source)
                /\ ~SelfEdgeOfDependencyGraph(l.source)

\* C27, amended: a link from a task to itself is dropped when the dependency
\* list is built.  The tasks are those of the links without it, no dependency
\* targets its own task, the link is an edge of neither graph, and no
\* dependency_cycle conflict names the task alone.
C27_SelfLinkDropped ==
    \A L \in LinkSets :
        (tasks = TasksOfLinks[L] /\ SelfLinks(L) # {}) =>
            /\ tasks = TasksOfLinks[L \ SelfLinks(L)]
            /\ \A l \in SelfLinks(L) :
                  /\ GanttDependency(DependencyTypeOf([linkType |-> l.name, direction |-> "OUTWARD"]),
                                     l.source) \notin DependencySet(l.source)
                  /\ ~SelfEdgeOfConflictGraph(l.source)
                  /\ ~SelfEdgeOfDependencyGraph(l.source)
                  /\ conflicts # Undefined =>
                        \A k \in 1..Len(conflicts[1]) :
                            conflicts[1][k].type = "dependency_cycle" =>
                                conflicts[1][k].taskIds # <<l.source, l.source>>

\* C27 witness: a finished run on issues with a link from A to itself and a
\* second link that gives A a dependency
C27_Witness ==
    /\ Finished
    /\ conflicts # Undefined
    /\ "A" \in DOMAIN dependencyGraph
    /\ \E L \in LinkSets :
          /\ SelfLinks(L) # {}
          /\ L # SelfLinks(L)
          /\ tasks = TasksOfLinks[L]
          /\ TaskMapGet(tasks, "A").dependencies # <<>>

\* The parsed value of the first field of the list that matches the rule and
\* has a date, if there is one
FirstMatchingDate(customFields, matches(_)) ==
    LET Dated(field) == /\ matches(FieldNameLowerCase(field.name))
                        /\ Truthy(parseDateFieldValue(field.value))
        dated == SelectSeq(customFields, Dated)
    IN  IF dated = <<>> THEN Undefined ELSE parseDateFieldValue(dated[1].value)

\* The issue converted last gave the task added last
LastConverted ==
    /\ issueIndex > 1
    /\ issues[issueIndex - 1].project # Undefined

\* C26: the startDate and the dueDate of a task are taken from the first
\* custom field of its issue that matches the rule and holds a date; later
\* matching fields do not overwrite them.
C26_FirstMatchingFieldWins ==
    LastConverted =>
        LET customFields == issues[issueIndex - 1].customFields
            task == tasks[Len(tasks)]
        IN  /\ task.startDate = FirstMatchingDate(customFields, isStartDateField)
            /\ task.dueDate = FirstMatchingDate(customFields, isDueDateField)

-----------------------------------------------------------------------------
(* Properties of the public operations *)

\* The steps of calculateCriticalPath that need a dependency: a closure
\* called on a task already computed, on an id that is no task, or beyond the
\* call stack
DependencyStepEnabled ==
    \/ ENABLED EarliestTimesMemoized
    \/ ENABLED EarliestTimesTypeError
    \/ ENABLED CallStackOverflow
    \/ ENABLED LatestTimesMemoized

\* Through the public operations none of them is ever enabled
PublicStepsAreAll == ~DependencyStepEnabled

-----------------------------------------------------------------------------
(* More properties of the rate limiting *)

\* The requests that went through requestQueue and are pending at the server
QueuedInFlight ==
    { r \in RequestIds : requests[r].queued /\ requests[r].state = "sent" }

\* The requests that went through requestQueue and were started
QueuedStarted == { r \in RequestIds : requests[r].queued /\ requests[r].sends > 0 }

\* C30: the queue has a single consumer and is FIFO.  A drain loop is active
\* exactly while isProcessingQueue holds, and it then awaits the one queued
\* request in flight; the requests still in requestQueue are in the order of
\* their makeRequest calls (the order of their ids), and every queued request
\* already started was enqueued before all of them.
C30_SingleConsumerFifo ==
    /\ Cardinality(QueuedInFlight) <= 1
    /\ isProcessingQueue <=> awaiting # Undefined
    /\ \A r \in QueuedInFlight : awaiting = Some(r)
    /\ awaiting # Undefined => awaiting[1] \in QueuedInFlight
    /\ \A i, j \in 1..Len(requestQueue) : i < j => requestQueue[i] < requestQueue[j]
    /\ \A r \in QueuedStarted : \A i \in 1..Len(requestQueue) : r < requestQueue[i]
    /\ \A i \in 1..Len(requestQueue) : requests[requestQueue[i]].state = "queued"

\* C30 witness: the drain loop awaits a queued request while a second one
\* waits in requestQueue, requests may be sent, and a timer that calls
\* processQueue is due
C30_Witness ==
    /\ isProcessingQueue
    /\ Cardinality(QueuedInFlight) = 1
    /\ Len(requestQueue) > 0
    /\ rateLimitInfo.remaining > 0
    /\ timers[0] > 0

\* Two queued requests started one after the other
C30_FifoWitness ==
    /\ Cardinality(QueuedStarted) >= 2
    /\ requestQueue = <<>>

=============================================================================
